---- MODULE Spec2Model ----
(***************************************************************************)
(* The client-side session store of the chat frontend                      *)
(* (frontend/src/app/SessionContext.tsx): the React provider that keeps    *)
(* the list of chat sessions and the current-session pointer, mirrors the  *)
(* list to localStorage and exposes the mutation handlers.                 *)
(*                                                                         *)
(* A JavaScript object is a function from its own keys to values; reading  *)
(* a key the object does not have gives undefined.  One step of the model  *)
(* is one handler call together with the re-render and the effects that    *)
(* follow it (the persist effect and the current-session repair effect).   *)
(*                                                                         *)
(* The chat page that uses the store (frontend/src/app/page.tsx) is part   *)
(* of the model: message submit, edit and resubmit, the requests in        *)
(* flight, the health check and the credential.                            *)
(***************************************************************************)
EXTENDS Integers, Sequences, FiniteSets, TLC

VARIABLES
    sessions,          \* useState<Session[]>([])
    currentSessionId,  \* useState('')
    storage,           \* localStorage item 'chatSessions'
    now,               \* the clock read by Date.now()
    mounted,           \* whether the provider's mount effects have run
    op,                \* the last handler that ran, with its arguments
    calls,             \* the number of steps taken since construction
    apiKeyItem,        \* sessionStorage item 'OPENAI_API_KEY'
    apiKey,            \* ChatPage useState('')
    backendHealthy,    \* ChatPage useState(true)
    isLoading,         \* ChatPage useState(false)
    error,             \* ChatPage useState<string | null>(null)
    inflight,          \* the requests awaited by handleSend / handleEditMessage
    pdfSessionId,      \* PDFSessionProvider useState<string | null>(null)
    pdfUploadStatus,   \* PDFSessionProvider useState('idle')
    pdfError           \* PDFSessionProvider useState<string | null>(null)

upload == <<pdfSessionId, pdfUploadStatus, pdfError>>

page == <<apiKeyItem, apiKey, backendHealthy, isLoading, error, inflight, upload>>

vars == <<sessions, currentSessionId, storage, now, mounted, op, calls, page>>

----------------------------------------------------------------------------
(* Bounds of the model *)

\* Every behaviour is a sequence of at most MaxCalls steps (handler calls,
\* clock ticks, reloads) from the construction of the provider.
MaxCalls == 5

----------------------------------------------------------------------------
(* JavaScript values *)

\* The value undefined in an object-valued slot (Session['pdf']).
undefined == [undefined |-> TRUE]

\* { ...a, ...b }
Spread(a, b) ==
    [k \in (DOMAIN a) \cup (DOMAIN b) |-> IF k \in DOMAIN b THEN b[k] ELSE a[k]]

\* Number.prototype.toString() of a clock reading is ToString of module TLC.

\* new Date().toLocaleString() of a clock reading.
toLocaleString(t) == "at " \o ToString(t)

\* msg.id === messageId, for a string messageId
IdIs(o, id) == "id" \in DOMAIN o /\ o.id = id

\* the value of (msg.id || fallback)
IdOr(o, fallback) == IF "id" \in DOMAIN o /\ o.id # "" THEN o.id ELSE fallback

\* prev.filter(session => session.id !== id)
RECURSIVE filterNotId(_, _)
filterNotId(s, id) ==
    IF s = <<>> THEN <<>>
    ELSE IF Head(s).id # id THEN <<Head(s)>> \o filterNotId(Tail(s), id)
    ELSE filterNotId(Tail(s), id)

\* messages.findIndex(msg => msg.id === messageId): zero-based, -1 when no
\* message has the id
findIndex(s, messageId) ==
    IF \E i \in 1..Len(s) : IdIs(s[i], messageId)
    THEN (CHOOSE i \in 1..Len(s) :
            IdIs(s[i], messageId) /\ \A j \in 1..(i - 1) : ~IdIs(s[j], messageId)) - 1
    ELSE -1

\* Array.prototype.slice(0, end) for end >= 0
slice0(s, end) == SubSeq(s, 1, IF end < Len(s) THEN end ELSE Len(s))

\* sessions.some(s => s.id === id)
some(s, id) == \E i \in 1..Len(s) : s[i].id = id

----------------------------------------------------------------------------
(* Sessions and messages *)

BootstrapMessage == [text |-> "Hello! How can I assist you today?", sender |-> "bot"]

\* The object literal built by createInitialSession, handleNewSession and
\* the fallback of handleDeleteSession at clock reading t.
FreshSession(t) ==
    [id |-> ToString(t),
     name |-> "Session " \o toLocaleString(t),
     messages |-> <<BootstrapMessage>>]

----------------------------------------------------------------------------
(* The Persistent Store Adapter: JSON.stringify / JSON.parse of the list *)

\* JSON.stringify of one session: a key whose value is undefined is left out.
StringifySession(s) ==
    [k \in (DOMAIN s) \ (IF "pdf" \in DOMAIN s /\ s.pdf = undefined THEN {"pdf"} ELSE {})
        |-> s[k]]

\* JSON.stringify(sessions): the item written to localStorage.
stringify(s) ==
    [kind |-> "array", value |-> [i \in 1..Len(s) |-> StringifySession(s[i])]]

\* What getItem can return: null, the empty string, text that is no JSON,
\* JSON that is no array, an array whose elements have no messages array,
\* an array of sessions.
NullItem == [kind |-> "null", value |-> <<>>]
EmptyItem == [kind |-> "empty", value |-> <<>>]
GarbageItem == [kind |-> "garbage", value |-> <<>>]
ObjectItem == [kind |-> "object", value |-> <<>>]
BadArrayItem == [kind |-> "badarray", value |-> <<>>]

\* if (savedSessions): null and '' are falsy
Truthy(item) == item.kind \notin {"null", "empty"}

ParsedMessage(msg) == Spread(msg, [sender |-> msg.sender])
ParsedSession(session) ==
    Spread(session,
        [messages |-> [j \in 1..Len(session.messages) |-> ParsedMessage(session.messages[j])]])

\* JSON.parse(savedSessions).map(...): throws on text that is no JSON
\* (SyntaxError), on a value without map and on a session without messages
\* (TypeError).
parse(item) ==
    IF item.kind = "array"
    THEN [threw |-> FALSE,
          value |-> [i \in 1..Len(item.value) |-> ParsedSession(item.value[i])]]
    ELSE [threw |-> TRUE, value |-> <<>>]

\* Lists saved by an earlier visit, at clock readings 0 and before.
Pdf1 ==
    [sessionId |-> "doc1", filename |-> "a.pdf", chunkSize |-> 1000,
     chunkOverlap |-> 200, numChunks |-> 3]
Pdf2 ==
    [sessionId |-> "doc2", filename |-> "b.pdf", chunkSize |-> 500,
     chunkOverlap |-> 50, numChunks |-> 7]

SavedChat ==
    [id |-> "0", name |-> "Session at 0",
     messages |-> <<BootstrapMessage,
                    [text |-> "hello", sender |-> "user", id |-> "-2"],
                    [text |-> "reply", sender |-> "bot", id |-> "-1"]>>]
SavedFileChat ==
    [id |-> "-3", name |-> "Session at -3",
     messages |-> <<BootstrapMessage,
                    [text |-> "hello", sender |-> "user", id |-> "-3"]>>,
     pdf |-> Pdf1]

InitialItems ==
    {NullItem, EmptyItem, GarbageItem, ObjectItem, BadArrayItem,
     stringify(<<>>), stringify(<<SavedChat>>), stringify(<<SavedChat, SavedFileChat>>)}

----------------------------------------------------------------------------
(* Effects *)

\* The persist effect that writes only a list of several sessions.
persistEffect_OnlyWhenSeveral(item, s) == IF Len(s) > 1 THEN stringify(s) ELSE item

\* useEffect(() => { if (sessions.length > 0) setItem(...) }, [sessions])
persistEffect(item, s) == IF Len(s) > 0 THEN stringify(s) ELSE item

\* A repair effect that takes the last session.
repairEffect_Last(s, cur) ==
    IF Len(s) > 0 /\ (cur = "" \/ ~some(s, cur)) THEN s[Len(s)].id ELSE cur

\* useEffect(() => { if (sessions.length > 0 && (!currentSessionId || !some))
\*                     setCurrentSessionId(sessions[0].id) }, [sessions, currentSessionId])
repairEffect(s, cur) ==
    IF Len(s) > 0 /\ (cur = "" \/ ~some(s, cur)) THEN s[1].id ELSE cur

\* The state after a handler has set the list to s and the pointer to cur,
\* the component has re-rendered and its effects have run.
Settle(s, cur) ==
    /\ sessions' = s
    /\ currentSessionId' = repairEffect(s, cur)
    /\ storage' = persistEffect(storage, s)

----------------------------------------------------------------------------
(* The handlers, as functions of the state they read *)

\* createInitialSession
createInitialSession(t) ==
    [sessions |-> <<FreshSession(t)>>, currentSessionId |-> FreshSession(t).id]

\* The load effect with a catch block that does not create the initial session.
loadSessions_SwallowsParseError(item, cur, t) ==
    IF Truthy(item)
    THEN IF parse(item).threw
         THEN [sessions |-> <<>>, currentSessionId |-> cur]
         ELSE [sessions |-> parse(item).value,
               currentSessionId |->
                   IF Len(parse(item).value) > 0 THEN parse(item).value[1].id ELSE cur]
    ELSE createInitialSession(t)

\* The load effect that makes the last saved session current.
loadSessions_SelectsLast(item, cur, t) ==
    IF Truthy(item)
    THEN IF parse(item).threw
         THEN createInitialSession(t)
         ELSE [sessions |-> parse(item).value,
               currentSessionId |->
                   IF Len(parse(item).value) > 0
                   THEN parse(item).value[Len(parse(item).value)].id ELSE cur]
    ELSE createInitialSession(t)

\* the load effect
loadSessions(item, cur, t) ==
    IF Truthy(item)
    THEN IF parse(item).threw
         THEN createInitialSession(t)
         ELSE [sessions |-> parse(item).value,
               currentSessionId |->
                   IF Len(parse(item).value) > 0 THEN parse(item).value[1].id ELSE cur]
    ELSE createInitialSession(t)

\* addMessageToCurrentSession that overwrites the id the caller supplied.
addMessageToCurrentSession_AlwaysGenerates(prev, cur, msg, t) ==
    LET F(session) ==
            IF session.id = cur
            THEN Spread(session,
                    [messages |-> Append(session.messages,
                                         Spread(msg, [id |-> ToString(t)]))])
            ELSE session
    IN [i \in 1..Len(prev) |-> F(prev[i])]

addMessageToCurrentSession(prev, cur, msg, t) ==
    LET F(session) ==
            IF session.id = cur
            THEN Spread(session,
                    [messages |-> Append(session.messages,
                                         Spread(msg, [id |-> IdOr(msg, ToString(t))]))])
            ELSE session
    IN [i \in 1..Len(prev) |-> F(prev[i])]

\* updateMessageInCurrentSession that replaces the message by the patch
\* (keeping its id) instead of merging the patch into it.
updateMessageInCurrentSession_Replaces(prev, cur, messageId, updatedMessage) ==
    LET G(msg) ==
            IF IdIs(msg, messageId) THEN Spread([id |-> msg.id], updatedMessage) ELSE msg
        F(session) ==
            IF session.id = cur
            THEN Spread(session, [messages |-> [j \in 1..Len(session.messages) |-> G(session.messages[j])]])
            ELSE session
    IN [i \in 1..Len(prev) |-> F(prev[i])]

\* updateMessageInCurrentSession that keeps the matching message as it is and
\* appends the patched copy to the list.
updateMessageInCurrentSession_AppendsCopy(prev, cur, messageId, updatedMessage) ==
    LET Matches(msg) == IdIs(msg, messageId)
        G(msg) == Spread(msg, updatedMessage)
        F(session) ==
            IF session.id = cur
            THEN Spread(session,
                    [messages |->
                        session.messages \o
                        [j \in 1..Len(SelectSeq(session.messages, Matches))
                            |-> G(SelectSeq(session.messages, Matches)[j])]])
            ELSE session
    IN [i \in 1..Len(prev) |-> F(prev[i])]

updateMessageInCurrentSession(prev, cur, messageId, updatedMessage) ==
    LET G(msg) == IF IdIs(msg, messageId) THEN Spread(msg, updatedMessage) ELSE msg
        F(session) ==
            IF session.id = cur
            THEN Spread(session, [messages |-> [j \in 1..Len(session.messages) |-> G(session.messages[j])]])
            ELSE session
    IN [i \in 1..Len(prev) |-> F(prev[i])]

\* removeMessagesAfter that also removes the message with the given id.
removeMessagesAfter_Exclusive(prev, cur, messageId) ==
    LET F(session) ==
            IF session.id = cur
            THEN Spread(session,
                    [messages |-> slice0(session.messages,
                                         findIndex(session.messages, messageId))])
            ELSE session
    IN [i \in 1..Len(prev) |-> F(prev[i])]

removeMessagesAfter(prev, cur, messageId) ==
    LET F(session) ==
            IF session.id = cur
            THEN Spread(session,
                    [messages |-> slice0(session.messages,
                                         findIndex(session.messages, messageId) + 1)])
            ELSE session
    IN [i \in 1..Len(prev) |-> F(prev[i])]

\* handleSwitchSession whose fallback is the last session of the list.
handleSwitchSession_FallsBackToLast(s, cur, id) ==
    IF some(s, id) THEN id
    ELSE IF Len(s) > 0 THEN s[Len(s)].id ELSE cur

\* handleSwitchSession that ignores an id of no session.
handleSwitchSession_IgnoresUnknown(s, cur, id) ==
    IF some(s, id) THEN id ELSE cur

handleSwitchSession(s, cur, id) ==
    IF some(s, id) THEN id
    ELSE IF Len(s) > 0 THEN s[1].id ELSE cur

\* handleNewSession that appends the new session.
handleNewSession_Appends(prev, t) ==
    [sessions |-> prev \o <<FreshSession(t)>>, currentSessionId |-> ToString(t)]

handleNewSession(prev, t) ==
    [sessions |-> <<FreshSession(t)>> \o prev, currentSessionId |-> ToString(t)]

\* handleDeleteSession without the fallback session.
handleDeleteSession_NoFallback(prev, cur, id, t) ==
    LET updated == filterNotId(prev, id)
    IN IF id = cur /\ Len(updated) > 0
       THEN [sessions |-> updated, currentSessionId |-> updated[1].id]
       ELSE [sessions |-> updated, currentSessionId |-> cur]

\* handleDeleteSession that promotes the last remaining session.
handleDeleteSession_PromotesLast(prev, cur, id, t) ==
    LET updated == filterNotId(prev, id)
    IN IF id = cur
       THEN IF Len(updated) > 0
            THEN [sessions |-> updated, currentSessionId |-> updated[Len(updated)].id]
            ELSE [sessions |-> <<FreshSession(t)>>, currentSessionId |-> ToString(t)]
       ELSE [sessions |-> updated, currentSessionId |-> cur]

handleDeleteSession(prev, cur, id, t) ==
    LET updated == filterNotId(prev, id)
    IN IF id = cur
       THEN IF Len(updated) > 0
            THEN [sessions |-> updated, currentSessionId |-> updated[1].id]
            ELSE [sessions |-> <<FreshSession(t)>>, currentSessionId |-> ToString(t)]
       ELSE [sessions |-> updated, currentSessionId |-> cur]

\* setCurrentSessionPdf that keeps a descriptor the session already has.
setCurrentSessionPdf_KeepsPrior(prev, cur, pdf) ==
    LET F(session) ==
            IF session.id = cur
            THEN Spread(session,
                    [pdf |-> IF "pdf" \in DOMAIN session /\ session.pdf # undefined
                             THEN session.pdf ELSE pdf])
            ELSE session
    IN [i \in 1..Len(prev) |-> F(prev[i])]

setCurrentSessionPdf(prev, cur, pdf) ==
    LET F(session) == IF session.id = cur THEN Spread(session, [pdf |-> pdf]) ELSE session
    IN [i \in 1..Len(prev) |-> F(prev[i])]

clearCurrentSessionPdf(prev, cur) ==
    LET F(session) ==
            IF session.id = cur THEN Spread(session, [pdf |-> undefined]) ELSE session
    IN [i \in 1..Len(prev) |-> F(prev[i])]

----------------------------------------------------------------------------
(* Inputs *)

\* Session ids a caller may pass: those of the list and one of no session.
SessionIds(s) == {s[i].id : i \in 1..Len(s)} \cup {"nonexistent"}

\* The sessions a handler that maps over the list treats as current.
Current(s, cur) == {i \in 1..Len(s) : s[i].id = cur}

\* session.pdf
PdfOf(session) == IF "pdf" \in DOMAIN session THEN session.pdf ELSE undefined

\* sessions.find(s => s.id === currentSessionId)?.pdf
currentPdf(s, cur) ==
    IF some(s, cur) THEN PdfOf(s[CHOOSE i \in 1..Len(s) : s[i].id = cur /\ \A h \in 1..(i - 1) : s[h].id # cur])
    ELSE undefined

\* Messages a caller may pass at clock reading t: a user message and a bot
\* reply with the ids the chat page gives them, a message without id and a
\* message with an empty id.
MessageInputs(t) ==
    {[text |-> "hello", sender |-> "user", id |-> ToString(t)],
     [text |-> "reply", sender |-> "bot", id |-> ToString(t + 1)],
     [text |-> "reply", sender |-> "bot"],
     [text |-> "reply", sender |-> "bot", id |-> ""]}

\* Message ids a caller may pass: those of the current session's messages
\* and one of no message.
MessageIds(s, cur) ==
    {s[i].messages[j].id :
        <<i, j>> \in {<<i, j>> \in (1..Len(s)) \X (1..4 * MaxCalls) :
                        /\ i \in Current(s, cur)
                        /\ j <= Len(s[i].messages)
                        /\ "id" \in DOMAIN s[i].messages[j]}}
    \cup {"missing"}

\* The patches the chat page passes: an edit and an error annotation.
Patches ==
    {[text |-> "edited"],
     [isError |-> TRUE, errorMessage |-> "Error contacting backend."]}

Pdfs == {Pdf1, Pdf2}

----------------------------------------------------------------------------
(* The chat page *)

\* A string that is inspected character by character is the sequence of its
\* characters.  A value that may be null is <<>> for null and <<v>> for v.
null == <<>>

\* String.prototype.startsWith
startsWith(str, prefix) ==
    Len(str) >= Len(prefix) /\ SubSeq(str, 1, Len(prefix)) = prefix

sk == <<"s", "k", "-">>

\* Credentials: one with the prefix, the bare prefix cut short, one without.
GoodKey == <<"s", "k", "-", "1">>
ShortKey == <<"s", "k">>
BadKey == <<"k", "e", "y">>

\* sessionStorage.getItem('OPENAI_API_KEY') || ''
getKey(item) == IF item = null THEN <<>> ELSE item[1]

\* What the session storage of the tab can hold when the page is constructed.
ApiKeyItems == {null, <<GoodKey>>, <<BadKey>>}

\* What the user can type into the key dialog and into the chat input.
TypedKeys == {GoodKey, ShortKey}
Inputs == {"", "hello", "again"}

\* input.trim(), for the inputs above
trim(input) == input

\* A send button that is also disabled while a request is awaited.
sendDisabled_WhileLoading(healthy, key, input) ==
    isLoading \/ ~healthy \/ ~startsWith(key, sk) \/ trim(input) = ""

\* disabled={!backendHealthy || !apiKey.startsWith('sk-') || !input.trim()} of
\* the send button; the input field has the first two conditions.
sendDisabled(healthy, key, input) ==
    ~healthy \/ ~startsWith(key, sk) \/ trim(input) = ""

\* The request handleSend posts with the values of its render: /file_chat with
\* the document's session id when the session has a document, /chat otherwise.
\* It remembers the currentSessionId its store handlers close over and the id
\* of the user message.
SendRequest(pdf, cur, userMessage, key, messageId) ==
    IF pdf # undefined
    THEN [url |-> "/file_chat",
          body |-> [session_id |-> pdf.sessionId, question |-> userMessage, api_key |-> key],
          handler |-> "handleSend", currentSessionId |-> cur, messageId |-> messageId]
    ELSE [url |-> "/chat",
          body |-> [user_message |-> userMessage, api_key |-> key],
          handler |-> "handleSend", currentSessionId |-> cur, messageId |-> messageId]

\* The request handleEditMessage posts.
EditRequest(cur, newText, key, messageId) ==
    [url |-> "/chat",
     body |-> [user_message |-> newText, api_key |-> key],
     handler |-> "handleEditMessage", currentSessionId |-> cur, messageId |-> messageId]

\* The text the backend answers a request with.
ResponseData(request) ==
    "re: " \o (IF request.url = "/file_chat" THEN request.body.question
                ELSE request.body.user_message)

\* What an awaited post can throw: an error response with a detail, an error
\* with a message only, a value with neither.
Errors ==
    {[detail |-> "Incorrect API key"], [message |-> "Network Error"], [other |-> "x"]}

\* An error text that ignores what the backend sent.
errorMsg_GenericOnly(err) == "Error contacting backend."

\* err?.response?.data?.detail || err?.message || 'Error contacting backend.'
errorMsg(err) ==
    IF "detail" \in DOMAIN err THEN err.detail
    ELSE IF "message" \in DOMAIN err THEN err.message
    ELSE "Error contacting backend."

\* Continuations that call the store handlers of the latest render.
closureSessionId_AtCompletion(request, cur) == cur

\* The session id used by the store handlers a continuation calls: the
\* handlers are those of the render in which the request was submitted.
closureSessionId(request, cur) == request.currentSessionId

\* Ids of the messages of the displayed session that offer the edit button.
EditableIds(s, cur) ==
    IF some(s, cur)
    THEN LET shown == s[CHOOSE i \in 1..Len(s) :
                           s[i].id = cur /\ \A h \in 1..(i - 1) : s[h].id # cur].messages
         IN {shown[j].id : j \in {j \in 1..Len(shown) :
                                    "id" \in DOMAIN shown[j] /\ shown[j].sender = "user"}}
    ELSE {}

\* Sequence s without its i-th element.
RemoveAt(s, i) == SubSeq(s, 1, i - 1) \o SubSeq(s, i + 1, Len(s))

----------------------------------------------------------------------------
(* Actions *)

Init ==
    /\ sessions = <<>>
    /\ currentSessionId = ""
    /\ storage \in InitialItems
    /\ now = 1
    /\ mounted = FALSE
    /\ op = [name |-> "construct"]
    /\ calls = 0
    /\ apiKeyItem = null
    /\ apiKey = <<>>
    /\ backendHealthy = TRUE
    /\ isLoading = FALSE
    /\ error = null
    /\ inflight = <<>>
    /\ pdfSessionId = <<>>
    /\ pdfUploadStatus = "idle"
    /\ pdfError = <<>>

Step == calls < MaxCalls /\ calls' = calls + 1

\* What the handler found when it was called: the ids of the sessions, the
\* pointer and the length of each session's message list.
Before ==
    [ids |-> [i \in 1..Len(sessions) |-> sessions[i].id],
     cur |-> currentSessionId,
     lens |-> [i \in 1..Len(sessions) |-> Len(sessions[i].messages)]]

\* The provider mounts: the load effect runs, then the other effects.
Mount ==
    /\ ~mounted
    /\ Step
    /\ mounted' = TRUE
    /\ LET r == loadSessions(storage, currentSessionId, now)
       IN Settle(r.sessions, r.currentSessionId)
    /\ op' = [name |-> "initialize", item |-> storage]
    /\ apiKey' = getKey(apiKeyItem)
    /\ UNCHANGED <<now, apiKeyItem, backendHealthy, isLoading, error, inflight, upload>>

\* The page is reloaded: the in-memory state is gone, the storage stays.
Reload ==
    /\ mounted
    /\ Step
    /\ mounted' = FALSE
    /\ sessions' = <<>>
    /\ currentSessionId' = ""
    /\ op' = [name |-> "construct"]
    /\ apiKey' = <<>>
    /\ backendHealthy' = TRUE
    /\ isLoading' = FALSE
    /\ error' = null
    /\ inflight' = <<>>
    /\ pdfSessionId' = <<>>
    /\ pdfUploadStatus' = "idle"
    /\ pdfError' = <<>>
    /\ UNCHANGED <<storage, now, apiKeyItem>>

\* Time passes between two events.
Tick ==
    /\ Step
    /\ now' = now + 1
    /\ op' = [name |-> "tick"]
    /\ UNCHANGED <<sessions, currentSessionId, storage, mounted, page>>

AddMessage ==
    /\ mounted
    /\ Step
    /\ \E msg \in MessageInputs(now) :
          /\ Settle(addMessageToCurrentSession(sessions, currentSessionId, msg, now),
                    currentSessionId)
          /\ op' = [name |-> "addMessage", before |-> Before, msg |-> msg]
    /\ UNCHANGED <<now, mounted, page>>

UpdateMessage ==
    /\ mounted
    /\ Step
    /\ \E id \in MessageIds(sessions, currentSessionId), patch \in Patches :
          /\ Settle(updateMessageInCurrentSession(sessions, currentSessionId, id, patch),
                    currentSessionId)
          /\ op' = [name |-> "updateMessage", before |-> Before, id |-> id, patch |-> patch]
    /\ UNCHANGED <<now, mounted, page>>

RemoveMessagesAfter ==
    /\ mounted
    /\ Step
    /\ \E id \in MessageIds(sessions, currentSessionId) :
          /\ Settle(removeMessagesAfter(sessions, currentSessionId, id), currentSessionId)
          /\ op' = [name |-> "removeMessagesAfter", before |-> Before, id |-> id]
    /\ UNCHANGED <<now, mounted, page>>

\* handleSwitchSession does not set the list: the persist effect does not run.
SwitchSession ==
    /\ mounted
    /\ Step
    /\ \E id \in SessionIds(sessions) :
          /\ currentSessionId' =
                repairEffect(sessions, handleSwitchSession(sessions, currentSessionId, id))
          /\ op' = [name |-> "switchSession", before |-> Before, id |-> id]
    /\ UNCHANGED <<sessions, storage, now, mounted, page>>

NewSession ==
    /\ mounted
    /\ Step
    /\ LET r == handleNewSession(sessions, now)
       IN Settle(r.sessions, r.currentSessionId)
    /\ op' = [name |-> "newSession", before |-> Before]
    /\ UNCHANGED <<now, mounted, page>>

DeleteSession ==
    /\ mounted
    /\ Step
    /\ \E id \in SessionIds(sessions) :
          /\ LET r == handleDeleteSession(sessions, currentSessionId, id, now)
             IN Settle(r.sessions, r.currentSessionId)
          /\ op' = [name |-> "deleteSession", before |-> Before, id |-> id]
    /\ UNCHANGED <<now, mounted, page>>

AttachDocument ==
    /\ mounted
    /\ Step
    /\ \E pdf \in Pdfs :
          /\ Settle(setCurrentSessionPdf(sessions, currentSessionId, pdf), currentSessionId)
          /\ op' = [name |-> "attachDocument", before |-> Before, pdf |-> pdf,
                   had |-> currentPdf(sessions, currentSessionId)]
    /\ UNCHANGED <<now, mounted, page>>

DetachDocument ==
    /\ mounted
    /\ Step
    /\ Settle(clearCurrentSessionPdf(sessions, currentSessionId), currentSessionId)
    /\ op' = [name |-> "detachDocument", before |-> Before,
             had |-> currentPdf(sessions, currentSessionId)]
    /\ UNCHANGED <<now, mounted, page>>

Next ==
    \/ Mount
    \/ Reload
    \/ Tick
    \/ AddMessage
    \/ UpdateMessage
    \/ RemoveMessagesAfter
    \/ SwitchSession
    \/ NewSession
    \/ DeleteSession
    \/ AttachDocument
    \/ DetachDocument

Spec == Init /\ [][Next]_vars

----------------------------------------------------------------------------
(* The chat page's handlers and the specification of the page *)

\* A list saved by an earlier visit in which two messages were submitted at
\* the same clock reading and the page was reloaded before the replies came.
SavedTwice ==
    [id |-> "-6", name |-> "Session at -6",
     messages |-> <<BootstrapMessage,
                    [text |-> "hello", sender |-> "user", id |-> "-5"],
                    [text |-> "again", sender |-> "user", id |-> "-5"]>>]

\* The page is constructed in a tab whose session storage may hold a key.
InitChat ==
    /\ sessions = <<>>
    /\ currentSessionId = ""
    /\ storage \in InitialItems \cup {stringify(<<SavedTwice>>)}
    /\ now = 1
    /\ mounted = FALSE
    /\ op = [name |-> "construct"]
    /\ calls = 0
    /\ apiKeyItem \in ApiKeyItems
    /\ apiKey = <<>>
    /\ backendHealthy = TRUE
    /\ isLoading = FALSE
    /\ error = null
    /\ inflight = <<>>
    /\ pdfSessionId = <<>>
    /\ pdfUploadStatus = "idle"
    /\ pdfError = <<>>

\* The key dialog's save button: a key with the prefix is stored and the
\* apiKeyChanged event makes the page read it.
SaveApiKey ==
    /\ mounted
    /\ Step
    /\ \E key \in TypedKeys :
          /\ startsWith(key, sk)
          /\ apiKeyItem' = <<key>>
          /\ apiKey' = getKey(<<key>>)
          /\ op' = [name |-> "saveApiKey", key |-> key]
    /\ UNCHANGED <<sessions, currentSessionId, storage, now, mounted,
                   backendHealthy, isLoading, error, inflight, upload>>

\* A health check (the first one or one of the interval) completes.
CheckHealth ==
    /\ mounted
    /\ Step
    /\ \E ok \in BOOLEAN :
          /\ backendHealthy' = ok
          /\ op' = [name |-> "checkHealth", ok |-> ok]
    /\ UNCHANGED <<sessions, currentSessionId, storage, now, mounted,
                   apiKeyItem, apiKey, isLoading, error, inflight, upload>>

\* handleSend up to its await.  The input field and the send button are
\* disabled while !backendHealthy || !apiKey.startsWith('sk-').
HandleSend ==
    /\ mounted
    /\ Step
    /\ \E input \in Inputs :
          /\ ~sendDisabled(backendHealthy, apiKey, input)
          /\ trim(input) # ""
          /\ startsWith(apiKey, sk)
          /\ LET messageId == ToString(now)
                 request == SendRequest(currentPdf(sessions, currentSessionId),
                                        currentSessionId, trim(input), apiKey, messageId)
             IN /\ Settle(addMessageToCurrentSession(sessions, currentSessionId,
                              [text |-> trim(input), sender |-> "user", id |-> messageId],
                              now),
                          currentSessionId)
                /\ inflight' = Append(inflight, request)
                /\ op' = [name |-> "handleSend", before |-> Before, issued |-> <<request>>]
    /\ isLoading' = TRUE
    /\ error' = null
    /\ UNCHANGED <<now, mounted, apiKeyItem, apiKey, backendHealthy, upload>>

\* handleEditMessage up to its await, or to its end when the stored key has
\* not the prefix and the handler throws before the request.
HandleEditMessage ==
    /\ mounted
    /\ Step
    /\ \E messageId \in EditableIds(sessions, currentSessionId), newText \in {"edited"} :
          LET cur == currentSessionId
              key == getKey(apiKeyItem)
              edited == updateMessageInCurrentSession(sessions, cur, messageId,
                                                      [text |-> newText])
              cut == removeMessagesAfter(edited, cur, messageId)
          IN IF startsWith(key, sk)
             THEN /\ Settle(cut, cur)
                  /\ inflight' = Append(inflight, EditRequest(cur, newText, key, messageId))
                  /\ isLoading' = TRUE
                  /\ error' = null
                  /\ op' = [name |-> "handleEditMessage", before |-> Before,
                            id |-> messageId,
                            issued |-> <<EditRequest(cur, newText, key, messageId)>>]
             ELSE /\ Settle(addMessageToCurrentSession(cut, cur,
                                [text |-> "Sorry, there was an error processing your request.",
                                 sender |-> "bot", id |-> ToString(now + 1),
                                 isError |-> TRUE, errorMessage |-> "Invalid API key"],
                                now),
                            cur)
                  /\ inflight' = inflight
                  /\ isLoading' = FALSE
                  /\ error' = <<"Invalid API key">>
                  /\ op' = [name |-> "handleEditMessage", before |-> Before,
                            id |-> messageId, issued |-> <<>>]
    /\ UNCHANGED <<now, mounted, apiKeyItem, apiKey, backendHealthy, upload>>

\* The awaited post of a request resolves: the continuation of handleSend or
\* handleEditMessage appends the bot reply.
Resolve ==
    /\ mounted
    /\ Step
    /\ \E i \in 1..Len(inflight) :
          LET request == inflight[i]
          IN /\ Settle(addMessageToCurrentSession(sessions,
                          closureSessionId(request, currentSessionId),
                          [text |-> ResponseData(request), sender |-> "bot",
                           id |-> ToString(now + 1)],
                          now),
                       currentSessionId)
             /\ inflight' = RemoveAt(inflight, i)
             /\ op' = [name |-> "resolve", before |-> Before, request |-> request]
    /\ isLoading' = FALSE
    /\ UNCHANGED <<now, mounted, apiKeyItem, apiKey, backendHealthy, error, upload>>

\* The awaited post of a request rejects: the catch block of handleSend marks
\* the user message, that of handleEditMessage appends an error message.
Reject ==
    /\ mounted
    /\ Step
    /\ \E i \in 1..Len(inflight), err \in Errors :
          LET request == inflight[i]
              cur == closureSessionId(request, currentSessionId)
          IN /\ IF request.handler = "handleSend"
                THEN Settle(updateMessageInCurrentSession(sessions, cur, request.messageId,
                                [isError |-> TRUE, errorMessage |-> errorMsg(err)]),
                            currentSessionId)
                ELSE Settle(addMessageToCurrentSession(sessions, cur,
                                [text |-> "Sorry, there was an error processing your request.",
                                 sender |-> "bot", id |-> ToString(now + 1),
                                 isError |-> TRUE, errorMessage |-> errorMsg(err)],
                                now),
                            currentSessionId)
             /\ error' = <<errorMsg(err)>>
             /\ inflight' = RemoveAt(inflight, i)
             /\ op' = [name |-> "reject", before |-> Before, request |-> request,
                       err |-> err]
    /\ isLoading' = FALSE
    /\ UNCHANGED <<now, mounted, apiKeyItem, apiKey, backendHealthy, upload>>

NextChat ==
    \/ Mount
    \/ Reload
    \/ Tick
    \/ SwitchSession
    \/ NewSession
    \/ DeleteSession
    \/ SaveApiKey
    \/ CheckHealth
    \/ HandleSend
    \/ HandleEditMessage
    \/ Resolve
    \/ Reject

SpecChat == InitChat /\ [][NextChat]_vars

----------------------------------------------------------------------------
(* The document upload of the sidebar *)

\* event.target.files?.[0]: no file chosen, or a file.
Files == {null, <<"a.pdf">>}

\* response.data of POST /upload_pdf.
UploadResponses ==
    {[session_id |-> "doc1", filename |-> "a.pdf", chunk_size |-> 1000,
      chunk_overlap |-> 200, num_chunks |-> 3],
     [session_id |-> "doc2", filename |-> "a.pdf", chunk_size |-> 1000,
      chunk_overlap |-> 200, num_chunks |-> 3]}

\* What the awaited upload can throw: as for a chat request, or an error
\* response whose detail is the empty string.
UploadErrors == Errors \cup {[detail |-> ""]}

\* err?.response?.data?.detail || 'PDF upload failed.'
uploadErrorMsg(err) ==
    IF "detail" \in DOMAIN err /\ err.detail # "" THEN err.detail
    ELSE "PDF upload failed."

\* The upload button is disabled while pdfUploadStatus === 'uploading'.
uploadDisabled(status) == status = "uploading"

\* handlePdfUpload up to its await, or to its return when no file was chosen.
\* The api_key field is the layout's key, read from the stored item.
HandlePdfUpload ==
    /\ mounted
    /\ Step
    /\ ~uploadDisabled(pdfUploadStatus)
    /\ \E file \in Files :
          IF file = null
          THEN /\ UNCHANGED upload
               /\ op' = [name |-> "handlePdfUpload", before |-> Before, issued |-> <<>>]
          ELSE /\ pdfUploadStatus' = "uploading"
               /\ pdfError' = null
               /\ UNCHANGED pdfSessionId
               /\ op' = [name |-> "handlePdfUpload", before |-> Before,
                         issued |-> <<[url |-> "/upload_pdf", file |-> file[1],
                                       api_key |-> getKey(apiKeyItem)]>>]
    /\ UNCHANGED <<sessions, currentSessionId, storage, now, mounted, apiKeyItem,
                   apiKey, backendHealthy, isLoading, error, inflight>>

\* The awaited upload resolves.
UploadResolve ==
    /\ mounted
    /\ Step
    /\ pdfUploadStatus = "uploading"
    /\ \E data \in UploadResponses :
          /\ pdfSessionId' = <<data.session_id>>
          /\ pdfUploadStatus' = "success"
          /\ op' = [name |-> "uploadResolve", before |-> Before, response |-> data]
    /\ UNCHANGED <<sessions, currentSessionId, storage, now, mounted, apiKeyItem,
                   apiKey, backendHealthy, isLoading, error, inflight, pdfError>>

\* The awaited upload rejects: the catch block of handlePdfUpload.
UploadReject ==
    /\ mounted
    /\ Step
    /\ pdfUploadStatus = "uploading"
    /\ \E err \in UploadErrors :
          /\ pdfUploadStatus' = "error"
          /\ pdfError' = <<uploadErrorMsg(err)>>
          /\ op' = [name |-> "uploadReject", before |-> Before, err |-> err,
                    had |-> pdfSessionId]
    /\ UNCHANGED <<sessions, currentSessionId, storage, now, mounted, apiKeyItem,
                   apiKey, backendHealthy, isLoading, error, inflight, pdfSessionId>>

NextUpload ==
    \/ Mount
    \/ Reload
    \/ SwitchSession
    \/ HandlePdfUpload
    \/ UploadResolve
    \/ UploadReject
    \/ HandleSend
    \/ Resolve

SpecUpload == InitChat /\ [][NextUpload]_vars

----------------------------------------------------------------------------
(* The state setters the provider hands to its consumers *)

\* Lists a consumer may pass to setSessions.
SessionLists ==
    {<<>>, <<SavedChat>>, <<SavedFileChat>>, <<SavedChat, SavedFileChat>>,
     <<SavedFileChat, SavedChat>>}

\* Pointers a consumer may pass to setCurrentSessionId.
Pointers == {"", "nonexistent", SavedChat.id, SavedFileChat.id}

\* setSessions(list) of the context value, the re-render and the effects.
SetSessions ==
    /\ mounted
    /\ Step
    /\ \E list \in SessionLists :
          /\ Settle(list, currentSessionId)
          /\ op' = [name |-> "setSessions", before |-> Before, list |-> list]
    /\ UNCHANGED <<now, mounted, page>>

\* setCurrentSessionId(id) of the context value, the re-render and the
\* effects; the list is not set, so the persist effect does not run.
SetCurrentSessionId ==
    /\ mounted
    /\ Step
    /\ \E id \in Pointers :
          /\ currentSessionId' = repairEffect(sessions, id)
          /\ op' = [name |-> "setCurrentSessionId", before |-> Before, id |-> id]
    /\ UNCHANGED <<sessions, storage, now, mounted, page>>

NextSetters ==
    \/ Mount
    \/ Reload
    \/ SetSessions
    \/ SetCurrentSessionId
    \/ SwitchSession
    \/ DeleteSession

SpecSetters == Init /\ [][NextSetters]_vars

----------------------------------------------------------------------------
(* Properties *)

\* The list holds exactly one session, a bootstrap session: its messages are
\* the single welcome message of the bot and it has no attached document.
IsBootstrapSession(session) ==
    /\ DOMAIN session = {"id", "name", "messages"}
    /\ Len(session.messages) = 1
    /\ session.messages[1].sender = "bot"
    /\ session.messages[1].text = "Hello! How can I assist you today?"

ValidStore == Len(sessions) > 0 /\ some(sessions, currentSessionId)

\* C1: once the store is initialized, after every newSession or deleteSession
\* call the session list is non-empty and currentSessionId is the id of a
\* session of the list.
C1_NeverEmptyAfterNewOrDelete ==
    (mounted /\ op.name \in {"newSession", "deleteSession"}) => ValidStore

\* C2: deleteSession(id) on a list that holds exactly one session, with id that
\* session's id, leaves exactly one session, a fresh one whose messages are the
\* single bootstrap message of the bot, and currentSessionId is its id.
C2_DeleteOnlySession ==
    [][(/\ op'.name = "deleteSession"
        /\ Len(sessions) = 1
        /\ sessions[1].id = op'.id)
       => (/\ Len(sessions') = 1
           /\ IsBootstrapSession(sessions'[1])
           /\ sessions'[1].id = ToString(now)
           /\ currentSessionId' = sessions'[1].id)]_vars

C2_Witness ==
    /\ op.name = "deleteSession"
    /\ op.before.ids = <<op.id>>
    /\ Len(sessions) = 1
    /\ IsBootstrapSession(sessions[1])
    /\ currentSessionId = sessions[1].id

\* The sequence initialize() loads is empty: there is no item, the item is
\* malformed, or it holds an empty list.
LoadedEmpty(item) == ~Truthy(item) \/ parse(item).threw \/ parse(item).value = <<>>

\* C3: after initialize(), for every content of the storage, the session list
\* is non-empty and currentSessionId references one of its sessions; when the
\* loaded sequence is empty the list holds exactly one bootstrap session.
C3_InitializeValid ==
    op.name = "initialize"
    => /\ ValidStore
       /\ LoadedEmpty(op.item)
          => (Len(sessions) = 1 /\ IsBootstrapSession(sessions[1]))

\* C4: initialization with a malformed item gives what initialization without
\* an item gives: exactly one session, whose messages are the single welcome
\* message of the bot, and currentSessionId is its id.
C4_MalformedAsAbsent ==
    (op.name = "initialize" /\ Truthy(op.item) /\ parse(op.item).threw)
    => /\ sessions = loadSessions(NullItem, "", now).sessions
       /\ currentSessionId = loadSessions(NullItem, "", now).currentSessionId
       /\ Len(sessions) = 1
       /\ IsBootstrapSession(sessions[1])
       /\ currentSessionId = sessions[1].id

C4_Witness ==
    /\ op.name = "initialize"
    /\ op.item = GarbageItem
    /\ Len(sessions) = 1
    /\ currentSessionId = sessions[1].id

\* The sessions of list s other than those with the given id, in their order.
Others(s, id) ==
    LET Keep(session) == session.id # id IN SelectSeq(s, Keep)

\* C5: deleteSession(id) removes the session with that id and leaves every
\* other session unchanged and in the same relative order; when id was the
\* current session and other sessions remain, currentSessionId becomes the id
\* of the first remaining session; when id was not the current session,
\* currentSessionId is unchanged.
C5_DeleteSession ==
    [][op'.name = "deleteSession"
       => LET id == op'.id
              rest == Others(sessions, id)
          IN /\ (id # currentSessionId \/ rest # <<>>) => sessions' = rest
             /\ (id = currentSessionId /\ rest # <<>>) => currentSessionId' = rest[1].id
             /\ id # currentSessionId => currentSessionId' = currentSessionId]_vars

\* The current session was deleted from a list of two different sessions, of
\* which it was the first: the second one is left and is current.
C5_Witness ==
    /\ op.name = "deleteSession"
    /\ op.id = op.before.cur
    /\ Len(op.before.ids) = 2
    /\ op.before.ids[1] = op.id
    /\ op.before.ids[2] # op.id
    /\ Len(sessions) = 1
    /\ sessions[1].id = op.before.ids[2]
    /\ currentSessionId = op.before.ids[2]

\* C6: newSession() puts a fresh session, whose messages are the single
\* bootstrap message of the bot and which has no attached document, at the
\* front of the list, keeps the previous sessions unchanged and in their order
\* behind it, and sets currentSessionId to the fresh session's id.
C6_NewSession ==
    [][op'.name = "newSession"
       => /\ Len(sessions') = Len(sessions) + 1
          /\ IsBootstrapSession(sessions'[1])
          /\ "pdf" \notin DOMAIN sessions'[1]
          /\ Tail(sessions') = sessions
          /\ currentSessionId' = sessions'[1].id]_vars

\* A session was created in front of two sessions, one with a document.
C6_Witness ==
    /\ op.name = "newSession"
    /\ Len(op.before.ids) = 2
    /\ Len(sessions) = 3
    /\ \E i \in 2..3 : "pdf" \in DOMAIN sessions[i]
    /\ currentSessionId = sessions[1].id
    /\ currentSessionId # op.before.cur

\* C7: switchSession(id) makes id current when a session with that id exists;
\* when none exists, currentSessionId becomes the id of the first session of a
\* non-empty list; the session list is unchanged in both cases.
C7_SwitchSession ==
    [][op'.name = "switchSession"
       => /\ some(sessions, op'.id) => currentSessionId' = op'.id
          /\ (~some(sessions, op'.id) /\ Len(sessions) > 0)
             => currentSessionId' = sessions[1].id
          /\ sessions' = sessions]_vars

\* switchSession of an id of no session, on a list of two sessions of which
\* the second was current: the first one is current now.
C7_Witness ==
    /\ op.name = "switchSession"
    /\ Len(op.before.ids) = 2
    /\ op.id \notin {op.before.ids[1], op.before.ids[2]}
    /\ op.before.cur = op.before.ids[2]
    /\ op.before.ids[1] # op.before.ids[2]
    /\ currentSessionId = sessions[1].id

\* C8: addMessage(msg) appends msg as the last element of the current
\* session's message list, leaving the earlier messages unchanged and in the
\* same order; the stored message keeps msg's id when one is supplied and
\* receives a generated id (the clock reading) when msg has none, an empty id
\* counting as none.
C8_AddMessage ==
    [][op'.name = "addMessage"
       => \A i \in Current(sessions, currentSessionId) :
            LET old == sessions[i].messages
                new == sessions'[i].messages
                msg == op'.msg
                stored == new[Len(new)]
            IN /\ Len(new) = Len(old) + 1
               /\ SubSeq(new, 1, Len(old)) = old
               /\ DOMAIN stored = DOMAIN msg \cup {"id"}
               /\ \A k \in DOMAIN msg \ {"id"} : stored[k] = msg[k]
               /\ ("id" \in DOMAIN msg /\ msg.id # "") => stored.id = msg.id
               /\ ("id" \notin DOMAIN msg \/ msg.id = "")
                  => (stored.id # "" /\ stored.id = ToString(now))]_vars

\* A message without id was appended to a session that had three messages.
C8_Witness ==
    /\ op.name = "addMessage"
    /\ "id" \notin DOMAIN op.msg
    /\ \E i \in Current(sessions, currentSessionId) :
          /\ op.before.lens[i] = 3
          /\ Len(sessions[i].messages) = 4
          /\ sessions[i].messages[4].id = ToString(now)

\* C9: updateMessage(id, patch) overwrites exactly the patched fields of the
\* messages of the current session whose id equals id, keeps their other
\* fields, keeps the number and order of the messages, and changes nothing at
\* all when no message of the current session has that id.
C9_UpdateMessage ==
    [][op'.name = "updateMessage"
       => LET id == op'.id
              patch == op'.patch
          IN /\ \A i \in Current(sessions, currentSessionId) :
                  LET old == sessions[i].messages
                      new == sessions'[i].messages
                  IN /\ Len(new) = Len(old)
                     /\ \A j \in 1..Len(old) :
                          IF IdIs(old[j], id)
                          THEN /\ DOMAIN new[j] = DOMAIN old[j] \cup DOMAIN patch
                               /\ \A k \in DOMAIN patch : new[j][k] = patch[k]
                               /\ \A k \in DOMAIN old[j] \ DOMAIN patch :
                                     new[j][k] = old[j][k]
                          ELSE new[j] = old[j]
             /\ (\A i \in Current(sessions, currentSessionId) :
                    \A j \in 1..Len(sessions[i].messages) :
                        ~IdIs(sessions[i].messages[j], id))
                => UNCHANGED <<sessions, currentSessionId, storage>>]_vars

\* The second of three messages was patched with an error annotation.
C9_Witness ==
    /\ op.name = "updateMessage"
    /\ "isError" \in DOMAIN op.patch
    /\ \E i \in Current(sessions, currentSessionId) :
          /\ Len(sessions[i].messages) = 3
          /\ IdIs(sessions[i].messages[2], op.id)
          /\ "isError" \in DOMAIN sessions[i].messages[2]
          /\ "isError" \notin DOMAIN sessions[i].messages[3]
          /\ sessions[i].messages[2].text = "hello"

\* C10: removeMessagesAfter(id), when the current session contains a message
\* with that id, truncates the current session's messages to the prefix that
\* ends at and includes that message (the first one with that id); the kept
\* messages are unchanged.
C10_RemoveMessagesAfter ==
    [][op'.name = "removeMessagesAfter"
       => \A i \in Current(sessions, currentSessionId) :
            LET old == sessions[i].messages
                new == sessions'[i].messages
            IN \A j \in 1..Len(old) :
                 (IdIs(old[j], op'.id) /\ \A h \in 1..(j - 1) : ~IdIs(old[h], op'.id))
                 => (/\ Len(new) = j
                     /\ \A h \in 1..j : new[h] = old[h])]_vars

\* The last of three messages was removed: two are left, the second one has
\* the given id.
C10_Witness ==
    /\ op.name = "removeMessagesAfter"
    /\ \E i \in Current(sessions, currentSessionId) :
          /\ op.before.lens[i] = 3
          /\ Len(sessions[i].messages) = 2
          /\ IdIs(sessions[i].messages[2], op.id)

\* C11: removeMessagesAfter(id), when no message of the current session has
\* that id, is a no-op: the current session keeps its full message list and
\* nothing of the store changes.
C11_RemoveMissingIsNoOp ==
    [][(/\ op'.name = "removeMessagesAfter"
        /\ \A i \in Current(sessions, currentSessionId) :
              \A j \in 1..Len(sessions[i].messages) :
                  ~IdIs(sessions[i].messages[j], op'.id))
       => sessions' = sessions]_vars

\* C12: updateMessage is idempotent: whenever updateMessage(id, patch) has been
\* applied, for every message id and every patch, applying it a second time
\* in a row gives the store state the first application gave: the same session
\* list, the same pointer and the same stored item.
C12_UpdateIdempotent ==
    op.name = "updateMessage"
    => LET twice == updateMessageInCurrentSession(sessions, currentSessionId,
                                                  op.id, op.patch)
       IN /\ twice = sessions
          /\ repairEffect(twice, currentSessionId) = currentSessionId
          /\ persistEffect(storage, twice) = storage

\* An edit was applied to a message of the current session, which now shows
\* the patched text.
C12_Witness ==
    /\ op.name = "updateMessage"
    /\ op.patch = [text |-> "edited"]
    /\ \E i \in Current(sessions, currentSessionId) :
          \E j \in 1..Len(sessions[i].messages) :
              /\ IdIs(sessions[i].messages[j], op.id)
              /\ sessions[i].messages[j].text = "edited"

\* C13: attachDocument(d) leaves the current session with exactly the
\* descriptor d, whatever descriptor it had before, and with its other fields
\* unchanged; detachDocument leaves it with no descriptor, in memory and in the
\* stored item; a detachDocument that follows a detachDocument changes nothing.
C13_AttachDetach ==
    [][/\ op'.name = "attachDocument"
          => \A i \in Current(sessions, currentSessionId) :
                /\ DOMAIN sessions'[i] = DOMAIN sessions[i] \cup {"pdf"}
                /\ sessions'[i].pdf = op'.pdf
                /\ \A k \in DOMAIN sessions[i] \ {"pdf"} : sessions'[i][k] = sessions[i][k]
       /\ op'.name = "detachDocument"
          => \A i \in Current(sessions, currentSessionId) :
                /\ PdfOf(sessions'[i]) = undefined
                /\ "pdf" \notin DOMAIN storage'.value[i]
                /\ \A k \in DOMAIN sessions[i] \ {"pdf"} : sessions'[i][k] = sessions[i][k]
       /\ (op.name = "detachDocument" /\ op'.name = "detachDocument")
          => UNCHANGED <<sessions, currentSessionId, storage>>]_vars

\* The second document was attached to a session that had the first one: the
\* session holds the second descriptor.
C13_Witness ==
    /\ op.name = "attachDocument"
    /\ op.had = Pdf1
    /\ op.pdf = Pdf2
    /\ some(sessions, currentSessionId)
    /\ currentPdf(sessions, currentSessionId) = Pdf2

\* Two session lists read the same: the same sessions in the same order, each
\* with the same id, name, messages (same order, same fields) and document
\* descriptor as read through session.pdf.
SameList(a, b) ==
    /\ Len(a) = Len(b)
    /\ \A i \in 1..Len(a) :
          /\ DOMAIN a[i] \ {"pdf"} = DOMAIN b[i] \ {"pdf"}
          /\ \A k \in DOMAIN a[i] \ {"pdf"} : a[i][k] = b[i][k]
          /\ PdfOf(a[i]) = PdfOf(b[i])

MutatingOps ==
    {"addMessage", "updateMessage", "removeMessagesAfter", "newSession",
     "deleteSession", "attachDocument", "detachDocument"}

\* C14: after a mutating store operation and its effects, when the session list
\* is non-empty the item stored under the sessions key decodes without an
\* exception to the in-memory list (same sessions, same order, same messages
\* with the same fields), and loading that item gives the list back.
C14_StoredDecodesToList ==
    (mounted /\ op.name \in MutatingOps /\ Len(sessions) > 0)
    => LET decoded == parse(storage)
       IN /\ Truthy(storage)
          /\ ~decoded.threw
          /\ SameList(decoded.value, sessions)
          /\ loadSessions(storage, "", now).sessions = decoded.value

\* The document of a session was detached: the session in memory has the key
\* pdf with the value undefined, the stored session has no such key, and the
\* decoded list reads the same as the list in memory.
C14_Witness ==
    /\ op.name = "detachDocument"
    /\ op.had = Pdf1
    /\ Len(sessions) = 2
    /\ parse(storage).value # sessions
    /\ SameList(parse(storage).value, sessions)

\* C15: in every reachable state the ids of the sessions of the list are
\* pairwise distinct, whatever the timing of the creations, two creations at
\* the same clock reading included.
C15_SessionIdsDistinct ==
    \A i, j \in 1..Len(sessions) : i # j => sessions[i].id # sessions[j].id

\* C16: in every reachable state, within each session the ids of the messages
\* that carry an id are pairwise distinct, for every interleaving of message
\* submissions and bot replies of the requests in flight.
C16_MessageIdsDistinct ==
    \A i \in 1..Len(sessions) :
       \A j, h \in 1..Len(sessions[i].messages) :
          (/\ j # h
           /\ "id" \in DOMAIN sessions[i].messages[j]
           /\ "id" \in DOMAIN sessions[i].messages[h])
          => sessions[i].messages[j].id # sessions[i].messages[h].id

\* The bot reply the continuation of a request appends at clock reading t.
Reply(request, t) ==
    [text |-> ResponseData(request), sender |-> "bot", id |-> ToString(t + 1)]

\* The user has switched away from the session a request was submitted from,
\* and both sessions are in the list.
Switched(request) ==
    /\ currentSessionId # request.currentSessionId
    /\ some(sessions, currentSessionId)
    /\ some(sessions, request.currentSessionId)

\* C17 as stated: when the user has switched to another session while a request
\* is in flight, the result of the request is applied to the session that is
\* current at completion time and not to the session the request was
\* submitted from.
C17_AppliedToCurrentAtCompletion ==
    [][(op'.name = "resolve" /\ Switched(op'.request))
       => \A i \in 1..Len(sessions) :
             /\ sessions[i].id = currentSessionId
                => sessions'[i].messages = Append(sessions[i].messages, Reply(op'.request, now))
             /\ sessions[i].id = op'.request.currentSessionId
                => sessions'[i] = sessions[i]]_vars

\* C17, amended: the result of a request (bot reply or error annotation) is
\* applied to the sessions that have the id that was current when the request
\* was submitted, whichever session is current at completion time; every other
\* session, the current one included, is unchanged.
C17_AppliedToSubmittingSession ==
    [][(op'.name \in {"resolve", "reject"})
       => /\ Len(sessions') = Len(sessions)
          /\ \A i \in 1..Len(sessions) :
                LET request == op'.request
                    old == sessions[i].messages
                    new == sessions'[i].messages
                IN IF sessions[i].id # request.currentSessionId
                   THEN sessions'[i] = sessions[i]
                   ELSE IF op'.name = "resolve"
                   THEN new = Append(old, Reply(request, now))
                   ELSE IF request.handler = "handleSend"
                   THEN /\ Len(new) = Len(old)
                        /\ \A j \in 1..Len(old) :
                              IF IdIs(old[j], request.messageId)
                              THEN /\ new[j].isError
                                   /\ new[j].errorMessage = errorMsg(op'.err)
                                   /\ new[j].text = old[j].text
                              ELSE new[j] = old[j]
                   ELSE /\ Len(new) = Len(old) + 1
                        /\ SubSeq(new, 1, Len(old)) = old
                        /\ new[Len(new)].isError
                        /\ new[Len(new)].errorMessage = errorMsg(op'.err)]_vars

\* A request resolved after the user had switched to another session: the
\* reply is the last message of the session the request was submitted from,
\* and the session that is current has the messages it had.
C17_Witness ==
    /\ op.name = "resolve"
    /\ op.before.cur = currentSessionId
    /\ Switched(op.request)
    /\ \A i \in 1..Len(sessions) :
          /\ sessions[i].id = op.request.currentSessionId
             => /\ Len(sessions[i].messages) = op.before.lens[i] + 1
                /\ sessions[i].messages[Len(sessions[i].messages)].text
                      = ResponseData(op.request)
          /\ sessions[i].id = currentSessionId
             => Len(sessions[i].messages) = op.before.lens[i]

\* C18: while requests are in flight a further message can be submitted (the
\* form is enabled whenever the backend is healthy and the key has the
\* prefix); the request a submit issues stands beside the earlier ones in
\* flight; and the reply of a request is the last message of its session at
\* the moment its response arrives, so replies stand in arrival order.
C18_ConcurrentRequests ==
    /\ (/\ mounted /\ calls < MaxCalls /\ Len(inflight) > 0
        /\ backendHealthy /\ startsWith(apiKey, sk))
       => ENABLED HandleSend
    /\ op.name = "handleSend"
       => /\ Len(inflight) >= 1
          /\ inflight[Len(inflight)] = op.issued[1]
    /\ op.name = "resolve"
       => \A i \in 1..Len(sessions) :
             sessions[i].id = op.request.currentSessionId
             => /\ Len(sessions[i].messages) = op.before.lens[i] + 1
                /\ sessions[i].messages[Len(sessions[i].messages)]
                      = Reply(op.request, now)

\* Two messages were submitted in one session, the second while the first
\* request was in flight; the second response arrived first: the transcript
\* ends with the two user messages, the reply to the second and the reply to
\* the first.
C18_Witness ==
    /\ op.name = "resolve"
    /\ inflight = <<>>
    /\ \E i \in Current(sessions, currentSessionId) :
          LET m == sessions[i].messages
              n == Len(sessions[i].messages)
          IN /\ n >= 5
             /\ m[n - 3].sender = "user" /\ m[n - 3].text = "hello"
             /\ m[n - 2].sender = "user" /\ m[n - 2].text = "again"
             /\ m[n - 1].sender = "bot" /\ m[n - 1].text = "re: again"
             /\ m[n].sender = "bot" /\ m[n].text = "re: hello"

\* C19: every chat request issued for a session, by message submit or by edit
\* and resubmit, is a file-chat request that carries the session id of the
\* attached document when the current session has a document attached, and a
\* generic chat request when it has none.
C19_RequestFollowsDocument ==
    [][(op'.name \in {"handleSend", "handleEditMessage"})
       => \A n \in 1..Len(op'.issued) :
             LET request == op'.issued[n]
                 pdf == currentPdf(sessions, currentSessionId)
             IN IF pdf # undefined
                THEN /\ request.url = "/file_chat"
                     /\ request.body.session_id = pdf.sessionId
                ELSE request.url = "/chat"]_vars

\* C20: no chat request is issued, by message submit or by edit and resubmit,
\* in a state where the last health check result is unhealthy or where the
\* stored credential does not start with the prefix 'sk-'.
C20_NoRequestWhenGated ==
    [][(op'.name \in {"handleSend", "handleEditMessage"} /\ op'.issued # <<>>)
       => /\ backendHealthy
          /\ startsWith(getKey(apiKeyItem), sk)]_vars

\* C21: when the request of a submitted message fails, the submitted user
\* message (every message of its session with its id) has isError = true and
\* errorMessage equal to the backend's detail text when there is one, else to
\* a non-empty fallback text (the error's own message, else a fixed string);
\* no message is appended for the request, loading has ended and a further
\* message can be submitted.
C21_FailureSurfaced ==
    (op.name = "reject" /\ op.request.handler = "handleSend")
    => LET err == op.err
           expected ==
               IF "detail" \in DOMAIN err THEN err.detail
               ELSE IF "message" \in DOMAIN err THEN err.message
               ELSE "Error contacting backend."
       IN /\ expected # ""
          /\ \A i \in 1..Len(sessions) :
                sessions[i].id = op.request.currentSessionId
                => /\ Len(sessions[i].messages) = op.before.lens[i]
                   /\ \A j \in 1..Len(sessions[i].messages) :
                         IdIs(sessions[i].messages[j], op.request.messageId)
                         => /\ sessions[i].messages[j].isError = TRUE
                            /\ sessions[i].messages[j].errorMessage = expected
          /\ error = <<expected>>
          /\ ~isLoading
          /\ (calls < MaxCalls /\ backendHealthy /\ startsWith(apiKey, sk))
             => ENABLED HandleSend

\* The request of the submitted message "hello" failed with a detail text: the
\* user message carries the flag and the detail, and it is the last message.
C21_Witness ==
    /\ op.name = "reject"
    /\ op.request.handler = "handleSend"
    /\ "detail" \in DOMAIN op.err
    /\ \E i \in Current(sessions, currentSessionId) :
          LET m == sessions[i].messages
          IN /\ Len(m) = op.before.lens[i]
             /\ IdIs(m[Len(m)], op.request.messageId)
             /\ m[Len(m)].sender = "user"
             /\ m[Len(m)].text = "hello"
             /\ m[Len(m)].isError = TRUE
             /\ m[Len(m)].errorMessage = op.err.detail
    /\ ~isLoading

\* C22: edit and resubmit of a user message m with a new text, with no other
\* request in flight and no session switch: the messages before m are
\* unchanged, m keeps its id and position and has the new text, every message
\* that followed m is removed, and when the call completes (or is refused for
\* want of a key) exactly one bot message is appended after m: the reply on
\* success, an error-flagged bot message on failure.
C22_EditResubmit ==
    [][/\ (op'.name = "handleEditMessage" /\ inflight = <<>>)
          => \A i \in Current(sessions, currentSessionId) :
                LET old == sessions[i].messages
                    new == sessions'[i].messages
                IN \A m \in 1..Len(old) :
                      (IdIs(old[m], op'.id) /\ old[m].sender = "user")
                      => /\ Len(new) >= m
                         /\ SubSeq(new, 1, m - 1) = SubSeq(old, 1, m - 1)
                         /\ new[m] = Spread(old[m], [text |-> "edited"])
                         /\ op'.issued # <<>> => Len(new) = m
                         /\ op'.issued = <<>>
                            => /\ Len(new) = m + 1
                               /\ new[m + 1].sender = "bot"
                               /\ new[m + 1].isError = TRUE
       /\ (/\ op.name = "handleEditMessage"
           /\ op'.name \in {"resolve", "reject"}
           /\ inflight = op.issued
           /\ currentSessionId = op'.request.currentSessionId)
          => \A i \in Current(sessions, currentSessionId) :
                LET old == sessions[i].messages
                    new == sessions'[i].messages
                IN /\ Len(new) = Len(old) + 1
                   /\ SubSeq(new, 1, Len(old)) = old
                   /\ IdIs(old[Len(old)], op'.request.messageId)
                   /\ old[Len(old)].text = "edited"
                   /\ new[Len(new)].sender = "bot"
                   /\ IF op'.name = "resolve"
                      THEN new[Len(new)].text = ResponseData(op'.request)
                      ELSE new[Len(new)].isError = TRUE]_vars

\* C23: the result of a chat request (bot reply or error annotation) is only
\* ever applied to the session that was current when the request was
\* submitted: a completion changes at most one session of the list, and only
\* one with the id that was current at the submit, whichever session is
\* current now; it never adds or removes a session; and when that session has
\* just been deleted the result is dropped and no session changes.
C23_OnlySubmittingSession ==
    [][(op'.name \in {"resolve", "reject"})
       => /\ Len(sessions') = Len(sessions)
          /\ \A i \in 1..Len(sessions) :
                sessions'[i] # sessions[i]
                => /\ sessions[i].id = op'.request.currentSessionId
                   /\ sessions'[i].id = sessions[i].id
                   /\ \A j \in 1..Len(sessions) :
                         sessions'[j] # sessions[j] => j = i
          /\ (op.name = "deleteSession" /\ op.id = op'.request.currentSessionId)
             => sessions' = sessions]_vars

\* C24: whenever a render leaves a non-empty session list with a
\* currentSessionId that is empty or references no session of the list, the
\* repair step has set currentSessionId to the id of the first session before
\* the next operation is processed; the repair step does not change a
\* currentSessionId that references a session of the list, and it never
\* changes the session list.
C24_Repair ==
    [][/\ (mounted' /\ Len(sessions') > 0) => some(sessions', currentSessionId')
       /\ op'.name = "setCurrentSessionId"
          => /\ sessions' = sessions
             /\ some(sessions, op'.id) => currentSessionId' = op'.id
             /\ (~some(sessions, op'.id) /\ Len(sessions) > 0)
                => currentSessionId' = sessions[1].id
       /\ op'.name = "setSessions"
          => /\ sessions' = op'.list
             /\ some(op'.list, currentSessionId) => currentSessionId' = currentSessionId
             /\ (~some(op'.list, currentSessionId) /\ Len(op'.list) > 0)
                => currentSessionId' = op'.list[1].id]_vars

\* The pointer was set to an id of no session while the list held two
\* sessions, the second one being current: the first session is current now.
C24_Witness ==
    /\ op.name = "setCurrentSessionId"
    /\ op.id = "nonexistent"
    /\ Len(sessions) = 2
    /\ op.before.cur = sessions[2].id
    /\ sessions[1].id # sessions[2].id
    /\ currentSessionId = sessions[1].id

\* The position of the current session: the one sessions.find(...) gives.
Displayed(s, cur) ==
    CHOOSE i \in 1..Len(s) : s[i].id = cur /\ \A h \in 1..(i - 1) : s[h].id # cur

MessageAndDocumentOps ==
    {"addMessage", "updateMessage", "removeMessagesAfter", "attachDocument",
     "detachDocument"}

\* C25: addMessage, updateMessage, removeMessagesAfter, attachDocument and
\* detachDocument change only the current session: every other session is
\* unchanged, the number and order of the sessions are unchanged,
\* currentSessionId is unchanged and the current session keeps its id and
\* name; when currentSessionId matches no session they change nothing.
C25_OnlyCurrentSession ==
    [][(op'.name \in MessageAndDocumentOps)
       => /\ Len(sessions') = Len(sessions)
          /\ currentSessionId' = currentSessionId
          /\ \A i \in 1..Len(sessions) :
                /\ sessions'[i].id = sessions[i].id
                /\ sessions'[i].name = sessions[i].name
                /\ (~some(sessions, currentSessionId)
                    \/ i # Displayed(sessions, currentSessionId))
                   => sessions'[i] = sessions[i]]_vars

\* C26: switchSession(id) with an id of no session is ignored:
\* currentSessionId has the same value after the call as before it, whichever
\* session of the list was current.
C26_UnknownIgnored ==
    [][(op'.name = "switchSession" /\ ~some(sessions, op'.id))
       => currentSessionId' = currentSessionId]_vars

\* C26, as the code has it: switchSession(id) with an id of no session makes
\* the first session of a non-empty list current, so currentSessionId keeps
\* its value exactly when it was the first session's id already.
C26_UnknownFallsBackToFirst ==
    [][(op'.name = "switchSession" /\ ~some(sessions, op'.id)
        /\ Len(sessions) > 0)
       => /\ currentSessionId' = sessions[1].id
          /\ (currentSessionId' = currentSessionId)
                <=> (currentSessionId = sessions[1].id)]_vars

\* switchSession of an id of no session while a session other than the first
\* was current: the pointer has moved to the first session.
C26_Witness ==
    /\ op.name = "switchSession"
    /\ op.id \notin {op.before.ids[i] : i \in 1..Len(op.before.ids)}
    /\ Len(op.before.ids) > 1
    /\ op.before.cur # op.before.ids[1]
    /\ currentSessionId = op.before.ids[1]
    /\ currentSessionId # op.before.cur

\* C27: after a document upload succeeds, the returned descriptor is attached
\* to the current session, so that the next message submitted in that session
\* is sent as a file-chat request carrying the document session id the upload
\* returned.
C27_UploadAttaches ==
    [][/\ (op'.name = "uploadResolve")
          => LET pdf == currentPdf(sessions', currentSessionId')
             IN /\ pdf # undefined
                /\ pdf.sessionId = op'.response.session_id
       /\ (op.name = "uploadResolve" /\ op'.name = "handleSend")
          => \A i \in 1..Len(op'.issued) :
                /\ op'.issued[i].url = "/file_chat"
                /\ op'.issued[i].body.session_id = op.response.session_id]_vars

\* C28: after a document upload fails no document is attached: the session's
\* document descriptor and the upload context's pdfSessionId are cleared and
\* the upload status is 'error' with a non-empty error text, also when an
\* earlier upload had succeeded.
C28_UploadFailureClears ==
    (op.name = "uploadReject")
       => /\ pdfSessionId = null
          /\ currentPdf(sessions, currentSessionId) = undefined
          /\ pdfUploadStatus = "error"
          /\ pdfError # null
          /\ pdfError[1] # ""

\* C29: isLoading is true in every state in which at least one chat request
\* (from submit or edit-and-resubmit) is still in flight, whatever the
\* interleaving of overlapping requests and completions, and is false once no
\* request is in flight.
C29_LoadingWhileInFlight ==
    /\ (Len(inflight) > 0) => isLoading
    /\ (Len(inflight) = 0) => ~isLoading

\* The item holds a non-empty saved list.
SavedNonEmpty(item) ==
    Truthy(item) /\ ~parse(item).threw /\ Len(parse(item).value) > 0

\* C30: the current-session pointer is not part of the persisted state:
\* switchSession writes nothing to the storage, and a load of a non-empty saved
\* list makes its first session current, whichever session was current when
\* the list was saved (so after any switchSession a reload would select the
\* first session of the list).
C30_PointerNotPersisted ==
    [][/\ (op'.name = "switchSession")
          => /\ storage' = storage
             /\ Len(sessions) > 0
                => /\ SavedNonEmpty(storage')
                   /\ loadSessions(storage', "", now).currentSessionId
                         = sessions'[1].id
       /\ (op'.name = "initialize" /\ SavedNonEmpty(storage))
          => currentSessionId' = parse(storage).value[1].id]_vars

\* A list of several sessions was reloaded after some calls: its first
\* session is current; a switchSession to another session would be undone by
\* the next reload.
C30_Witness ==
    /\ op.name = "initialize"
    /\ calls >= 4
    /\ SavedNonEmpty(op.item)
    /\ Len(sessions) >= 2
    /\ sessions[2].id # sessions[1].id
    /\ currentSessionId = sessions[1].id
    /\ handleSwitchSession(sessions, currentSessionId, sessions[2].id) = sessions[2].id
    /\ loadSessions(storage, "", now).currentSessionId = sessions[1].id

====
